---- MODULE Spec2Model ----
(***************************************************************************)
(* A model of the Index class of src/src/index.ts: a record-oriented       *)
(* facade (initialize, upsert, query, list, retrieve) over one table of a  *)
(* libSQL connection.  Statements are built as text the way the code       *)
(* builds them; the engine behind client.execute is modelled by a parser   *)
(* of that text and by the relational meaning of each statement.           *)
(*                                                                         *)
(* Text is a sequence of character codes (39 is the single quote).         *)
(***************************************************************************)
EXTENDS Integers, Sequences, FiniteSets, TLC

VARIABLES schema, table, up, hist, res, trav, calls, config

vars == <<schema, table, up, hist, res, trav, calls, config>>

----------------------------------------------------------------------------
(* Bounds of the model. *)

MaxBatch == 2      \* records in one upsert call
MaxTopK == 2       \* topK of a query
MaxLimit == 2      \* limit of a list call
MaxIds == 2        \* identifiers in one retrieve call
MaxLen == 2        \* length of the texts of the escaping specification
MaxPages == 4      \* pages of one chained traversal
MaxRanked == 3     \* rows of a table that a query with options ranks

----------------------------------------------------------------------------
(* Schema configuration.  An options object is a function from the keys   *)
(* the caller gave to their values; the constructor (lines 72-78) copies   *)
(* it into the fields of the index, config, with "vector_index" for a      *)
(* table name and false for a debug flag that is unset or falsy.           *)

TestColumns == << [name |-> "title", type |-> "TEXT"],
                  [name |-> "year", type |-> "INTEGER"] >>

(* Options that leave the table name and the debug flag out. *)
TestOptions ==
  [k \in {"dimensions", "columns"} |-> IF k = "dimensions" THEN 2 ELSE TestColumns]

(* options.tableName || "vector_index" and options.debug || false *)
OrDefault(options, key, falsy, default) ==
  IF key \in DOMAIN options /\ options[key] # falsy THEN options[key] ELSE default

Constructor(options) ==
  [tableName |-> OrDefault(options, "tableName", "", "vector_index"),
   dimensions |-> options["dimensions"],
   columns |-> options["columns"],
   debug |-> OrDefault(options, "debug", FALSE, FALSE)]

tableName == config.tableName
dimensions == config.dimensions
columns == config.columns

ColNames == {columns[i].name : i \in 1..Len(columns)}

----------------------------------------------------------------------------
(* Values: what a record field holds in the program and what a column      *)
(* holds in the engine.  kind is "text", "int", "vec", "null" (SQL NULL)   *)
(* or "undefined" (a field the record does not have).                      *)

TextV(s) == [kind |-> "text", s |-> s, n |-> 0]
IntV(n) == [kind |-> "int", s |-> <<>>, n |-> n]
VecV(v) == [kind |-> "vec", s |-> v, n |-> 0]
BlobV(v) == [kind |-> "blob", s |-> v, n |-> 0]       \* an ArrayBuffer of floats
NullV == [kind |-> "null", s |-> <<>>, n |-> 0]
Undefined == [kind |-> "undefined", s |-> <<>>, n |-> 0]

----------------------------------------------------------------------------
(* Text helpers. *)

(* The text left as it is: no quote is doubled. *)
ReplaceQuotesNone(s) == s

RECURSIVE ReplaceQuotes(_)
(* value.replace(/'/g, "''"): every single quote is doubled. *)
ReplaceQuotes(s) ==
  IF s = <<>> THEN <<>>
  ELSE (IF Head(s) = 39 THEN <<39, 39>> ELSE <<Head(s)>>) \o ReplaceQuotes(Tail(s))

RECURSIVE DigitsOf(_)
DigitsOf(n) == IF n < 10 THEN <<48 + n>> ELSE DigitsOf(n \div 10) \o <<48 + (n % 10)>>

(* Number.prototype.toString of an integer. *)
NumberToString(n) == IF n < 0 THEN <<45>> \o DigitsOf(0 - n) ELSE DigitsOf(n)

(* value.toString() of an identifier, a text or an integer. *)
IdToString(value) == IF value.kind = "int" THEN NumberToString(value.n) ELSE value.s

RECURSIVE Join(_, _)
(* Array.prototype.join: the elements are texts, sep is the separator. *)
Join(parts, sep) ==
  IF parts = <<>> THEN <<>>
  ELSE IF Len(parts) = 1 THEN parts[1]
  ELSE parts[1] \o sep \o Join(Tail(parts), sep)

(* What join makes of one array element: undefined and null become the     *)
(* empty text, a number its decimal form, a text itself.                   *)
ElementText(v) ==
  CASE v.kind = "text" -> v.s
    [] v.kind = "int" -> NumberToString(v.n)
    [] OTHER -> <<>>

CommaSpace == <<44, 32>>

(* vector32('[x, y]') : the vector literal of lines 104 and 134. *)
VectorLiteral(vec) ==
  <<118, 101, 99, 116, 111, 114, 51, 50, 40, 39, 91>>
    \o Join([i \in 1..Len(vec) |-> NumberToString(vec[i])], CommaSpace)
    \o <<93, 39, 41>>

----------------------------------------------------------------------------
(* Records passed to upsert: an identifier (a text or an integer), a       *)
(* vector and one value per field; a field the record lacks is Undefined.  *)

Quoted(s) == <<39>> \o ReplaceQuotes(s) \o <<39>>

(* The text under which the engine stores the identifier of a record      *)
(* (line 102). *)
Key(vec) == IdToString(vec.id)

(* The column list of lines 94-98. *)
columnNames == <<"id", "embedding">> \o [i \in 1..Len(columns) |-> columns[i].name]

(* The values array of lines 101-111, each element as join renders it. *)
UpsertValues(vec) ==
  << Quoted(IdToString(vec.id)), VectorLiteral(vec.vector) >>
    \o [i \in 1..Len(columns) |->
          LET value == vec.fields[columns[i].name]
          IN  IF value.kind = "text" THEN Quoted(value.s) ELSE ElementText(value)]

(* The statement without OR REPLACE. *)
UpsertSqlInsertOnly(vec) ==
  [verb |-> "INSERT", table |-> tableName, columnNames |-> columnNames,
   values |-> Join(UpsertValues(vec), CommaSpace)]

(* The statement of lines 113-116. *)
UpsertSql(vec) ==
  [verb |-> "INSERT OR REPLACE", table |-> tableName, columnNames |-> columnNames,
   values |-> Join(UpsertValues(vec), CommaSpace)]

----------------------------------------------------------------------------
(* The engine's reading of a VALUES list: expressions separated by commas, *)
(* each a quoted text ('' inside it is one quote), an integer or           *)
(* vector32('<text of a vector>').                                         *)

Fail == [ok |-> FALSE, val |-> NullV, next |-> 0]

RECURSIVE SkipSpaces(_, _)
SkipSpaces(s, i) == IF i <= Len(s) /\ s[i] = 32 THEN SkipSpaces(s, i + 1) ELSE i

RECURSIVE ScanString(_, _, _)
(* i is the position after the opening quote. *)
ScanString(s, i, acc) ==
  IF i > Len(s) THEN Fail
  ELSE IF s[i] = 39
       THEN IF i + 1 <= Len(s) /\ s[i + 1] = 39
            THEN ScanString(s, i + 2, Append(acc, 39))
            ELSE [ok |-> TRUE, val |-> TextV(acc), next |-> i + 1]
       ELSE ScanString(s, i + 1, Append(acc, s[i]))

IsDigit(c) == c >= 48 /\ c <= 57

RECURSIVE ScanDigits(_, _, _)
ScanDigits(s, i, acc) ==
  IF i <= Len(s) /\ IsDigit(s[i]) THEN ScanDigits(s, i + 1, 10 * acc + (s[i] - 48))
  ELSE [ok |-> TRUE, val |-> IntV(acc), next |-> i]

ScanNat(s, j) ==
  IF j <= Len(s) /\ IsDigit(s[j]) THEN ScanDigits(s, j, 0) ELSE Fail

Negated(d) == IF d.ok THEN [d EXCEPT !.val = IntV(0 - d.val.n)] ELSE d

ScanInt(s, i) ==
  IF i <= Len(s) /\ s[i] = 45 THEN Negated(ScanNat(s, i + 1)) ELSE ScanNat(s, i)

RECURSIVE ScanNumbers(_, _, _)
(* After a number of a vector text: a comma and more numbers, or the       *)
(* closing bracket that ends the text.                                     *)
NumberSep(s, j, acc) ==
  IF j > Len(s) THEN Fail
  ELSE IF s[j] = 44 THEN ScanNumbers(s, j + 1, acc)
  ELSE IF s[j] = 93 /\ j = Len(s) THEN [ok |-> TRUE, val |-> VecV(acc), next |-> j + 1]
  ELSE Fail

AfterNumber(s, n, acc) ==
  IF ~n.ok THEN Fail ELSE NumberSep(s, SkipSpaces(s, n.next), Append(acc, n.val.n))

(* The numbers of a vector text after its '[' : n, n, ... ] *)
ScanNumbers(s, i, acc) == AfterNumber(s, ScanInt(s, SkipSpaces(s, i)), acc)

(* vector32(text): the text is [n, n, ...]. *)
ParseVectorText(t) ==
  IF Len(t) < 2 \/ t[1] # 91 THEN Fail
  ELSE IF SkipSpaces(t, 2) = Len(t) /\ t[Len(t)] = 93
       THEN [ok |-> TRUE, val |-> VecV(<<>>), next |-> Len(t) + 1]
  ELSE ScanNumbers(t, 2, <<>>)

Vector32Word == <<118, 101, 99, 116, 111, 114, 51, 50, 40>>

StartsWith(s, i, w) ==
  /\ i + Len(w) - 1 <= Len(s)
  /\ \A k \in 1..Len(w) : s[i + k - 1] = w[k]

(* vector32( <quoted text> ) from its argument on: t is the quoted text    *)
(* read, v the vector it denotes, b the position of the closing            *)
(* parenthesis.                                                            *)
Vector32Value(s, b, v) ==
  IF v.ok /\ b <= Len(s) /\ s[b] = 41 THEN [ok |-> TRUE, val |-> v.val, next |-> b + 1]
  ELSE Fail

Vector32Close(s, t) ==
  IF ~t.ok THEN Fail
  ELSE Vector32Value(s, SkipSpaces(s, t.next), ParseVectorText(t.val.s))

Vector32Arg(s, a) ==
  IF a <= Len(s) /\ s[a] = 39 THEN Vector32Close(s, ScanString(s, a + 1, <<>>)) ELSE Fail

ParseExpr(s, i) ==
  IF i > Len(s) THEN Fail
  ELSE IF s[i] = 39 THEN ScanString(s, i + 1, <<>>)
  ELSE IF s[i] = 45 \/ IsDigit(s[i]) THEN ScanInt(s, i)
  ELSE IF StartsWith(s, i, Vector32Word)
       THEN Vector32Arg(s, SkipSpaces(s, i + Len(Vector32Word)))
  ELSE Fail

RECURSIVE ParseList(_, _, _)
(* After an expression of the list: a comma and more, or the end. *)
ListSep(s, j, acc) ==
  IF j > Len(s) THEN [ok |-> TRUE, vals |-> acc]
  ELSE IF s[j] = 44 THEN ParseList(s, j + 1, acc)
  ELSE [ok |-> FALSE, vals |-> <<>>]

AfterExpr(s, e, acc) ==
  IF ~e.ok THEN [ok |-> FALSE, vals |-> <<>>]
  ELSE ListSep(s, SkipSpaces(s, e.next), Append(acc, e.val))

ParseList(s, i, acc) == AfterExpr(s, ParseExpr(s, SkipSpaces(s, i)), acc)

ParseValues(s) == ParseList(s, 1, <<>>)

----------------------------------------------------------------------------
(* The schema of the database: the set of its tables and indexes.  A table *)
(* has a name and column names; an index has a name, the table it is on    *)
(* and the column it indexes.                                              *)

TableObject(name, cols) == [type |-> "table", name |-> name, on |-> name, cols |-> cols]

IndexObject(name, on, col) == [type |-> "index", name |-> name, on |-> on, cols |-> {col}]

(* The column names of the table the statements of the facade address. *)
TableColumns == {"id", "embedding"} \cup ColNames

(* A table of the configured name that another program created, without   *)
(* the embedding column.                                                   *)
ForeignTable == TableObject(tableName, {"id"})

Named(sch, type, name) == {o \in sch : o.type = type /\ o.name = name}

(* What the engine says of a statement that reads or writes the columns of *)
(* the configured table: "" when the table is there with its columns.      *)
SchemaError(sch) ==
  IF Named(sch, "table", tableName) = {} THEN "no such table"
  ELSE IF \E o \in Named(sch, "table", tableName) : ~(TableColumns \subseteq o.cols)
    THEN "no such column"
  ELSE ""

TableReady(sch) == SchemaError(sch) = ""

(* CREATE TABLE without IF NOT EXISTS. *)
CreateTableSqlUnconditional ==
  [verb |-> "CREATE TABLE", name |-> tableName, cols |-> TableColumns]

(* createTable (lines 284-300): the statement it builds. *)
CreateTableSql ==
  [verb |-> "CREATE TABLE IF NOT EXISTS", name |-> tableName, cols |-> TableColumns]

(* createIndex (lines 302-308): the statement it builds. *)
CreateIndexSql ==
  [verb |-> "CREATE INDEX IF NOT EXISTS", name |-> "idx_" \o tableName \o "_embedding",
   on |-> tableName, col |-> "embedding"]

(* CREATE TABLE [IF NOT EXISTS] name (cols): a table of that name is left  *)
(* as it is with IF NOT EXISTS and is an error without.                    *)
ExecCreateTable(stmt, sch) ==
  IF Named(sch, "table", stmt.name) # {}
    THEN [ok |-> stmt.verb = "CREATE TABLE IF NOT EXISTS", schema |-> sch]
  ELSE [ok |-> TRUE, schema |-> sch \cup {TableObject(stmt.name, stmt.cols)}]

(* CREATE INDEX [IF NOT EXISTS] name ON table(libsql_vector_idx(col)). *)
ExecCreateIndex(stmt, sch) ==
  IF Named(sch, "index", stmt.name) # {}
    THEN [ok |-> stmt.verb = "CREATE INDEX IF NOT EXISTS", schema |-> sch]
  ELSE IF \E o \in Named(sch, "table", stmt.on) : stmt.col \in o.cols
    THEN [ok |-> TRUE, schema |-> sch \cup {IndexObject(stmt.name, stmt.on, stmt.col)}]
  ELSE [ok |-> FALSE, schema |-> sch]

----------------------------------------------------------------------------
(* The table: a function from the identifiers stored to their rows.        *)

EmptyTable == [x \in {} |-> NullV]

(* The row of an identifier the table holds is kept: INSERT OR IGNORE. *)
PutIgnoring(tbl, k, row) ==
  [x \in (DOMAIN tbl) \cup {k} |-> IF x = k /\ k \notin DOMAIN tbl THEN row ELSE tbl[x]]

Put(tbl, k, row) == [x \in (DOMAIN tbl) \cup {k} |-> IF x = k THEN row ELSE tbl[x]]

(* INSERT [OR REPLACE] INTO t (columns) VALUES (values).  id is the        *)
(* primary key: with OR REPLACE the row of the identifier is written in    *)
(* place of the one the table holds; a plain INSERT of an identifier the   *)
(* table holds fails.                                                      *)
InsertValues(p, stmt, sch, tbl) ==
  IF stmt.table # tableName
    THEN [ok |-> FALSE, error |-> "no such table", table |-> tbl]
  ELSE IF ~TableReady(sch)
    THEN [ok |-> FALSE, error |-> SchemaError(sch), table |-> tbl]
  ELSE IF ~p.ok
    THEN [ok |-> FALSE, error |-> "syntax error", table |-> tbl]
  ELSE IF Len(p.vals) # Len(stmt.columnNames)
    THEN [ok |-> FALSE, error |-> "values for columns", table |-> tbl]
  ELSE IF p.vals[1].kind # "text" \/ p.vals[2].kind # "vec"
    THEN [ok |-> FALSE, error |-> "datatype mismatch", table |-> tbl]
  ELSE IF stmt.verb # "INSERT OR REPLACE" /\ p.vals[1].s \in DOMAIN tbl
    THEN [ok |-> FALSE, error |-> "UNIQUE constraint failed", table |-> tbl]
  ELSE [ok |-> TRUE, error |-> "",
        table |-> Put(tbl, p.vals[1].s,
                      [id |-> p.vals[1].s,
                       embedding |-> p.vals[2].s,
                       cols |-> [c \in {stmt.columnNames[k] : k \in 3..Len(p.vals)} |->
                                   p.vals[CHOOSE k \in 3..Len(p.vals) :
                                            stmt.columnNames[k] = c]]])]

(* The statement executed on a table emptied of its other rows. *)
ExecInsertOnEmpty(stmt, sch, tbl) ==
  InsertValues(ParseValues(stmt.values), stmt, sch, EmptyTable)

ExecInsert(stmt, sch, tbl) == InsertValues(ParseValues(stmt.values), stmt, sch, tbl)

----------------------------------------------------------------------------
----------------------------------------------------------------------------
(* Numbers of the form k + m * dot / sqrt(den), den > 0: the values the    *)
(* engine's cosine distance and the similarity column take, kept exact.    *)

RealV(k, m, dot, den) == [kind |-> "real", k |-> k, m |-> m, dot |-> dot, den |-> den]

Abs(x) == IF x < 0 THEN 0 - x ELSE x

RECURSIVE Dot(_, _)
Dot(a, b) == IF a = <<>> THEN 0 ELSE Head(a) * Head(b) + Dot(Tail(a), Tail(b))

(* vector_distance_cos(a, b) = 1 - a.b / (|a| |b|) *)
VectorDistanceCos(a, b) == RealV(1, -1, Dot(a, b), Dot(a, a) * Dot(b, b))

(* x itself: the distance taken for the similarity. *)
OneMinusDropped(x) == x

(* 1 - x *)
OneMinus(x) == RealV(1 - x.k, 0 - x.m, x.dot, x.den)

(* x <= c for an integer c. *)
RealLeqInt(x, c) ==
  LET p == x.m * x.dot
      t == c - x.k
  IN  IF t >= 0 THEN p <= 0 \/ p * p <= t * t * x.den
      ELSE p < 0 /\ p * p >= t * t * x.den

(* x >= c for an integer c. *)
RealGeqInt(x, c) ==
  LET p == x.m * x.dot
      t == c - x.k
  IN  IF t <= 0 THEN p >= 0 \/ p * p <= t * t * x.den
      ELSE p > 0 /\ p * p >= t * t * x.den

(* x <= y, for x and y with the same integer part k. *)
RealLeq(x, y) ==
  LET p == x.m * x.dot
      q == y.m * y.dot
  IN  p * Abs(p) * y.den <= q * Abs(q) * x.den

----------------------------------------------------------------------------
(* SELECT statements as the engine answers them.                           *)

RECURSIVE Perms(_)
(* Every order in which the engine may return the rows of a set. *)
Perms(S) ==
  IF S = {} THEN {<<>>}
  ELSE UNION {{<<x>> \o p : p \in Perms(S \ {x})} : x \in S}

Min(a, b) == IF a < b THEN a ELSE b

Prefix(seq, n) == SubSeq(seq, 1, Min(n, Len(seq)))

RECURSIVE LexLess(_, _)
(* a < b for texts, as the BINARY collation of the id column compares. *)
LexLess(a, b) ==
  IF b = <<>> THEN FALSE
  ELSE IF a = <<>> THEN TRUE
  ELSE IF Head(a) # Head(b) THEN Head(a) < Head(b)
  ELSE LexLess(Tail(a), Tail(b))

(* vector_extract(embedding): the text [x,y]. *)
VectorExtract(v) ==
  TextV(<<91>> \o Join([i \in 1..Len(v) |-> NumberToString(v[i])], <<44>>) \o <<93>>)

(* The filter texts the model passes, and what the engine makes of them. *)
Filters == {"", "year > 1", "id <> '1'", "year >"}

FilterValid(filter) == filter # "year >"

FilterHolds(filter, row) ==
  CASE filter = "year > 1" -> row.cols["year"].kind = "int" /\ row.cols["year"].n > 1
    [] filter = "id <> '1'" -> row.id # <<49>>
    [] OTHER -> TRUE

(* The columns of a result row that every SELECT of the facade may ask for. *)
ResultRow(row, withVector, withColumns) ==
  [c \in {"id"} \cup (IF withVector THEN {"vector"} ELSE {})
                \cup (IF withColumns THEN ColNames ELSE {}) |->
     IF c = "id" THEN TextV(row.id)
     ELSE IF c = "vector" THEN VectorExtract(row.embedding)
     ELSE row.cols[c]]

WithField(f, name, v) == [x \in (DOMAIN f) \cup {name} |-> IF x = name THEN v ELSE f[x]]

(* WHERE filter left out: every row is kept. *)
WhereDropped(tbl, filter) == DOMAIN tbl

(* WHERE filter (line 144): the rows kept; all of them without a filter. *)
Where(tbl, filter) == {id \in DOMAIN tbl : FilterHolds(filter, tbl[id])}

(* ORDER BY similarity, ascending. *)
InOrderAscending(x, y) == RealLeq(x, y)

(* ORDER BY similarity DESC (line 145): a row of similarity x may come     *)
(* before one of similarity y.                                             *)
InOrder(x, y) == RealLeq(y, x)

EngineError(msg) == [ok |-> FALSE, error |-> msg, rows |-> <<>>]

EngineRows(rows) == [ok |-> TRUE, error |-> "", rows |-> rows]

(* SELECT id, 1 - vector_distance_cos(embedding, vector32(q)) AS            *)
(* similarity, columns [, vector_extract(embedding) AS vector] FROM t       *)
(* [WHERE filter] ORDER BY similarity DESC LIMIT topK.  The set of the      *)
(* answers the engine may give: rows of equal similarity come in any order; *)
(* the distance of two vectors of different lengths is an error, raised     *)
(* when a row is evaluated.                                                 *)
ExecQuery(sch, tbl, queryVector, includeVectors, filter, topK) ==
  LET match == Where(tbl, filter)
      sim(id) == OneMinus(VectorDistanceCos(tbl[id].embedding, queryVector))
      sorted == {p \in Perms(match) :
                   \A i \in 1..(Len(p) - 1) : InOrder(sim(p[i]), sim(p[i + 1]))}
      out(id) == WithField(ResultRow(tbl[id], includeVectors, TRUE), "similarity", sim(id))
  IN  IF ~TableReady(sch) THEN {EngineError(SchemaError(sch))}
      ELSE IF ~FilterValid(filter) THEN {EngineError("syntax error")}
      ELSE IF \E id \in match : Len(tbl[id].embedding) # Len(queryVector)
        THEN {EngineError("vectors must have the same length")}
      ELSE IF Len(queryVector) # dimensions /\ match = {}
        THEN {EngineRows(<<>>), EngineError("vectors must have the same length")}
      ELSE {EngineRows([i \in 1..Len(Prefix(p, topK)) |-> out(p[i])]) : p \in sorted}

RECURSIVE Sorted(_)
(* ORDER BY id: the identifiers of a set in ascending order, least first. *)
SortedFrom(S, least) == <<least>> \o Sorted(S \ {least})

Sorted(S) ==
  IF S = {} THEN <<>>
  ELSE SortedFrom(S, CHOOSE x \in S : \A y \in S : ~LexLess(y, x))

(* SELECT id [, vector] [, columns] FROM t [WHERE id > cursor] ORDER BY id  *)
(* LIMIT n.  hasCursor says whether the WHERE clause is there.              *)
ExecList(sch, tbl, withVector, withColumns, hasCursor, cursor, n) ==
  LET match == {id \in DOMAIN tbl : ~hasCursor \/ LexLess(cursor, id)}
      p == Sorted(match)
  IN  IF ~TableReady(sch) THEN EngineError(SchemaError(sch))
      ELSE EngineRows([i \in 1..Len(Prefix(p, n)) |->
                         ResultRow(tbl[p[i]], withVector, withColumns)])

(* SELECT id [, vector] [, columns] FROM t WHERE id IN (ids): the rows come *)
(* in an order of the engine's choosing.                                    *)
ExecRetrieve(sch, tbl, withVector, withColumns, ids) ==
  LET match == {id \in DOMAIN tbl : \E k \in 1..Len(ids) : ids[k] = id}
  IN  IF ~TableReady(sch) THEN {EngineError(SchemaError(sch))}
      ELSE {EngineRows([i \in 1..Len(p) |-> ResultRow(tbl[p[i]], withVector, withColumns)]) :
              p \in Perms(match)}

----------------------------------------------------------------------------
(* Decoding of result rows (lines 310-354).  Each returns ok = FALSE where *)
(* the code throws.                                                        *)

Thrown == [ok |-> FALSE, val |-> Undefined]

Returned(v) == [ok |-> TRUE, val |-> v]

ensureIdType(value) ==
  IF value.kind \in {"text", "int"} THEN Returned(value) ELSE Thrown

(* parseFloat of a text. *)
ParsedFloat(f) == IF f.ok THEN Returned(f.val) ELSE Returned([kind |-> "NaN"])

ensureNumber(value) ==
  IF value.kind \in {"real", "int"} THEN Returned(value)
  ELSE IF value.kind = "text" THEN ParsedFloat(ScanInt(value.s, 1))
  ELSE Thrown

(* JSON.parse of a text: null, a number, or an array of numbers; any other *)
(* text of the model is not JSON.                                          *)
JsonNull == <<110, 117, 108, 108>>

JsonNumber(t, n) == IF n.ok /\ n.next = Len(t) + 1 THEN n ELSE Fail

JsonParse(t) ==
  IF t = JsonNull THEN [ok |-> TRUE, val |-> NullV, next |-> Len(t) + 1]
  ELSE IF t # <<>> /\ t[1] = 91 THEN ParseVectorText(t)
  ELSE IF t # <<>> /\ (t[1] = 45 \/ IsDigit(t[1])) THEN JsonNumber(t, ScanInt(t, 1))
  ELSE Fail

(* JSON.parse of the text of a vector, or the error it throws. *)
ParsedJson(j) == IF j.ok THEN Returned(j.val) ELSE Thrown

(* Every stored vector read as absent. *)
parseVectorAbsent(value) == Returned(Undefined)

parseVector(value) ==
  IF value.kind = "text" THEN ParsedJson(JsonParse(value.s))
  ELSE IF value.kind = "blob" THEN Returned(VecV(value.s))
  ELSE IF value.kind = "null" THEN Returned(Undefined)
  ELSE Thrown

(* JavaScript truthiness of a row value. *)
Truthy(value) ==
  CASE value.kind = "text" -> value.s # <<>>
    [] value.kind = "int" -> value.n # 0
    [] value.kind \in {"null", "undefined"} -> FALSE
    [] OTHER -> TRUE

Metadata(row) == [c \in ColNames |-> row[c]]

(* One element of the array query returns (lines 155-170). *)
QueryItemOk(row, includeVectors) ==
  /\ ensureIdType(row["id"]).ok
  /\ ensureNumber(row["similarity"]).ok
  /\ includeVectors => parseVector(row["vector"]).ok

(* The columns put under a metadata key. *)
WithColumnsNested(response, row) == WithField(response, "metadata", Metadata(row))

(* Lines 165-167: each configured column is set on the response itself. *)
WithColumns(response, row) ==
  [x \in (DOMAIN response) \cup ColNames |-> IF x \in ColNames THEN row[x] ELSE response[x]]

WithVector(response, row, includeVectors) ==
  IF includeVectors THEN WithField(response, "vector", parseVector(row["vector"]).val)
  ELSE response

QueryItem(row, includeVectors) ==
  WithColumns(WithVector([id |-> ensureIdType(row["id"]).val,
                          score |-> ensureNumber(row["similarity"]).val],
                         row, includeVectors),
              row)

(* One element of list's items and of retrieve's array (lines 211-226 and  *)
(* 267-279).                                                               *)
ItemOk(row, includeVector) ==
  /\ ensureIdType(row["id"]).ok
  /\ (includeVector /\ Truthy(row["vector"])) => parseVector(row["vector"]).ok

WithMetadata(item, row, includeMetadata) ==
  IF includeMetadata THEN WithField(item, "metadata", Metadata(row)) ELSE item

Item(row, includeVector, includeMetadata) ==
  WithMetadata(WithVector([id |-> ensureIdType(row["id"]).val], row,
                          includeVector /\ Truthy(row["vector"])),
               row, includeMetadata)

----------------------------------------------------------------------------
(* The outcome of one call: what it returned or that it threw, with the    *)
(* rows the engine gave it.                                                *)

Outcome(op, args, status, error, rows, value) ==
  [op |-> op, args |-> args, status |-> status, error |-> error, rows |-> rows,
   value |-> value]

NoOutcome == Outcome("none", <<>>, "ok", "", <<>>, Undefined)

(* query (lines 126-171), given the engine's answer. *)
QueryOutcome(args, e) ==
  IF ~e.ok THEN Outcome("query", args, "error", e.error, <<>>, Undefined)
  ELSE IF \E i \in 1..Len(e.rows) : ~QueryItemOk(e.rows[i], args.includeVectors)
    THEN Outcome("query", args, "error", "Error", e.rows, Undefined)
  ELSE Outcome("query", args, "ok", "", e.rows,
               [i \in 1..Len(e.rows) |-> QueryItem(e.rows[i], args.includeVectors)])

(* The statement without its WHERE clause. *)
ListEngineNoCursor(sch, tbl, args) ==
  ExecList(sch, tbl, args.includeVectors, args.includeMetadata,
           FALSE, args.cursor.s, args.limit + 1)

(* list (lines 173-239).  The WHERE clause is there when cursor is truthy; *)
(* limit + 1 rows are asked for.                                           *)
ListEngine(sch, tbl, args) ==
  ExecList(sch, tbl, args.includeVectors, args.includeMetadata,
           Truthy(args.cursor), args.cursor.s, args.limit + 1)

ListOutcome(args, e) ==
  IF ~e.ok THEN Outcome("list", args, "error", e.error, <<>>, Undefined)
  ELSE IF Len(e.rows) = 0
    THEN Outcome("list", args, "ok", "", e.rows, [items |-> <<>>, nextCursor |-> NullV])
  ELSE LET page == Prefix(e.rows, args.limit)
           lastItem == e.rows[args.limit]
           nextCursor == IF Len(e.rows) > args.limit /\ lastItem["id"].kind # "null"
                         THEN TextV(IdToString(lastItem["id"]))
                         ELSE NullV
       IN  IF \E i \in 1..Len(page) : ~ItemOk(page[i], args.includeVectors)
             THEN Outcome("list", args, "error", "Error", e.rows, Undefined)
           ELSE Outcome("list", args, "ok", "", e.rows,
                        [items |-> [i \in 1..Len(page) |->
                                      Item(page[i], args.includeVectors, args.includeMetadata)],
                         nextCursor |-> nextCursor])

(* The items in the reverse of the order of the rows. *)
RetrieveItemsReversed(args, rows) ==
  [i \in 1..Len(rows) |->
     Item(rows[Len(rows) + 1 - i], args.includeVector, args.includeMetadata)]

(* The row mapping of retrieve (lines 267-279). *)
RetrieveItems(args, rows) ==
  [i \in 1..Len(rows) |-> Item(rows[i], args.includeVector, args.includeMetadata)]

(* Line 281: the array for an array of ids, else its first element, which  *)
(* is undefined when there is none.                                        *)
RetrieveResult(args, items) ==
  IF ~args.single THEN items
  ELSE IF Len(items) > 0 THEN items[1] ELSE Undefined

(* retrieve (lines 241-282): ids is one identifier (single) or an array. *)
RetrieveOutcome(args, e) ==
  IF ~e.ok THEN Outcome("retrieve", args, "error", e.error, <<>>, Undefined)
  ELSE IF \E i \in 1..Len(e.rows) : ~ItemOk(e.rows[i], args.includeVector)
    THEN Outcome("retrieve", args, "error", "Error", e.rows, Undefined)
  ELSE Outcome("retrieve", args, "ok", "", e.rows,
               RetrieveResult(args, RetrieveItems(args, e.rows)))

----------------------------------------------------------------------------
(* The inputs the callers draw from. *)

Ids == {<<>>, <<39>>, <<49>>}                 \* "", "'" and "1"

Payloads ==                                   \* a vector of the configured
  {[vector |-> <<1, 0>>, year |-> IntV(1)],   \* dimensionality and a year
   [vector |-> <<-1, 1>>, year |-> IntV(2)]}

QueryVectors == {<<1, 0>>, <<0, 1>>, <<1>>}   \* the last one is too short

Titles == {TextV(<<79, 39>>), Undefined}      \* "O'" or no title

Records ==
  {[id |-> TextV(id), vector |-> p.vector, fields |-> [title |-> t, year |-> p.year]] :
     id \in Ids, p \in Payloads, t \in Titles}

Cursors == {Undefined} \cup {TextV(id) : id \in Ids}

RECURSIVE SeqsUpTo(_, _)
SeqsUpTo(S, n) ==
  IF n = 0 THEN {<<>>}
  ELSE LET shorter == SeqsUpTo(S, n - 1)
       IN  shorter \cup {Append(q, x) : q \in {r \in shorter : Len(r) = n - 1}, x \in S}

----------------------------------------------------------------------------
(* State.  schema: the objects created in the database.  table: the rows.  *)
(* up: the upsert call in flight (k of its n records are written).  res:   *)
(* the caller's latest call: its outcome, or "pending" while it is in      *)
(* flight; the caller awaits each call before it makes the next.  hist:    *)
(* for each identifier, the record of its latest statement the engine      *)
(* accepted.                                                               *)
(* trav: a caller's chained traversal with list: the limit, the cursor the *)
(* last page gave, the identifiers seen, the pages fetched, and whether    *)
(* the table changed since the first page.                                 *)

IdleUp == [status |-> "idle", n |-> 0, k |-> 0, vectorArray |-> <<>>]

(* calls: the upsert calls that callers have in flight at the same time:   *)
(* for each caller the array of its call and the statements executed.      *)
Callers == {1, 2}

IdleCalls == [c \in Callers |-> [status |-> "idle", k |-> 0, vectorArray |-> <<>>]]

IdleTrav == [active |-> FALSE, done |-> FALSE, limit |-> 0, cursor |-> NullV,
             seen |-> <<>>, sizes |-> <<>>, dirty |-> FALSE, start |-> {}]

Init ==
  /\ config = Constructor(TestOptions)
  /\ schema \in {{}, {ForeignTable}}
  /\ table = EmptyTable
  /\ up = IdleUp
  /\ hist = EmptyTable
  /\ res = NoOutcome
  /\ trav = IdleTrav
  /\ calls = IdleCalls

(* initialize assigning the table name as it ends. *)
InitializedRenaming(e, step, fault) ==
  /\ schema' = e.schema
  /\ config' = [config EXCEPT !.tableName = "renamed"]
  /\ res' = Outcome("initialize",
                    [schema |-> schema, table |-> table, step |-> step, fault |-> fault],
                    IF e.ok THEN "ok" ELSE "error",
                    IF e.ok THEN "" ELSE "SQLITE_ERROR", <<>>, Undefined)
  /\ UNCHANGED <<table, up, hist, trav, calls>>

(* initialize once the engine answered e to the statement of step, the    *)
(* last one it executed: a statement that fails ends the call.  The        *)
(* outcome records the schema and the rows the call found, and the         *)
(* statement that met a failure of the connection, if one did.             *)
Initialized(e, step, fault) ==
  /\ schema' = e.schema
  /\ res' = Outcome("initialize",
                    [schema |-> schema, table |-> table, step |-> step, fault |-> fault],
                    IF e.ok THEN "ok" ELSE "error",
                    IF e.ok THEN "" ELSE "SQLITE_ERROR", <<>>, Undefined)
  /\ UNCHANGED <<table, up, hist, trav, calls, config>>

(* initialize (lines 86-89): createTable, then createIndex. *)
Initialize ==
  /\ up.status = "idle"
  /\ \E t \in {ExecCreateTable(CreateTableSql, schema)} :
       IF ~t.ok THEN Initialized(t, "createTable", "")
       ELSE Initialized(ExecCreateIndex(CreateIndexSql, t.schema), "createIndex", "")

(* The turn with the rejection of the statement caught and dropped. *)
UpsertExecutedErrorSwallowed(args, e, vectorArray) ==
  /\ table' = e.table
  /\ hist' = IF e.ok THEN Put(hist, Key(args.vec), args.vec) ELSE hist
  /\ IF args.k = args.n
       THEN /\ up' = IdleUp
            /\ res' = Outcome("upsert", args, "ok", "", <<>>, "Success")
       ELSE /\ up' = [status |-> "running", n |-> args.n, k |-> args.k,
                      vectorArray |-> vectorArray]
            /\ res' = Outcome("upsert", args, "pending", "", <<>>, Undefined)
  /\ trav' = trav
  /\ UNCHANGED <<schema, calls, config>>

(* One turn of the loop of upsert (lines 100-121) for the k-th of n        *)
(* records, once the engine answered e to its statement: an engine error   *)
(* ends the call, the last record ends it with "Success" (line 123).       *)
(* vectorArray is the array the call was given, or <<>> for a call whose   *)
(* records are drawn turn by turn.                                         *)
UpsertExecuted(args, e, vectorArray) ==
  /\ table' = e.table
  /\ hist' = IF e.ok THEN Put(hist, Key(args.vec), args.vec) ELSE hist
  /\ IF ~e.ok
       THEN /\ up' = IdleUp
            /\ res' = Outcome("upsert", args, "error", e.error, <<>>, Undefined)
     ELSE IF args.k = args.n
       THEN /\ up' = IdleUp
            /\ res' = Outcome("upsert", args, "ok", "", <<>>, "Success")
     ELSE /\ up' = [status |-> "running", n |-> args.n, k |-> args.k,
                    vectorArray |-> vectorArray]
          /\ res' = Outcome("upsert", args, "pending", "", <<>>, Undefined)
  /\ trav' = IF trav.sizes # <<>> /\ e.table # table
             THEN [trav EXCEPT !.dirty = TRUE] ELSE trav
  /\ UNCHANGED <<schema, calls, config>>

(* The statement of the k-th of n records, vec, is built and executed;    *)
(* prior is the row the table holds for its identifier.                    *)
UpsertRecord(n, k, vec) ==
  UpsertExecuted([n |-> n, k |-> k, vec |-> vec,
                  prior |-> IF Key(vec) \in DOMAIN table THEN table[Key(vec)] ELSE NullV],
                 ExecInsert(UpsertSql(vec), schema, table), <<>>)

(* upsert of n records: the call runs up to the first statement; with no   *)
(* record it returns "Success" at once.                                    *)
UpsertCall ==
  /\ up.status = "idle"
  /\ \E n \in 0..MaxBatch :
       IF n = 0
       THEN /\ res' = Outcome("upsert", [n |-> 0, k |-> 0, vec |-> Undefined,
                                         prior |-> NullV], "ok", "", <<>>, "Success")
            /\ UNCHANGED <<schema, table, up, hist, trav, calls, config>>
       ELSE \E vec \in Records : UpsertRecord(n, 1, vec)

(* The call in flight resumes with its next record. *)
UpsertStep ==
  /\ up.status = "running"
  /\ up.vectorArray = <<>>
  /\ \E vec \in Records : UpsertRecord(up.n, up.k + 1, vec)

(* The same call with its array given at the call: the k-th turn takes the *)
(* k-th record of vectorArray (line 100).                                  *)
UpsertArrayRecord(vectorArray, k) ==
  UpsertExecuted([n |-> Len(vectorArray), k |-> k, vec |-> vectorArray[k],
                  vectorArray |-> vectorArray, before |-> table],
                 ExecInsert(UpsertSql(vectorArray[k]), schema, table), vectorArray)

(* The records of the arrays: two identifiers, with and without a title. *)
ArrayRecords == {vec \in Records : vec.id # TextV(<<>>)}

UpsertArrayCall ==
  /\ up.status = "idle"
  /\ \E vectorArray \in SeqsUpTo(ArrayRecords, MaxBatch) :
       IF vectorArray = <<>>
       THEN /\ res' = Outcome("upsert", [n |-> 0, k |-> 0, vec |-> Undefined,
                                         vectorArray |-> <<>>, before |-> table],
                              "ok", "", <<>>, "Success")
            /\ UNCHANGED <<schema, table, up, hist, trav, calls, config>>
       ELSE UpsertArrayRecord(vectorArray, 1)

UpsertArrayStep ==
  /\ up.status = "running"
  /\ up.vectorArray # <<>>
  /\ UpsertArrayRecord(up.vectorArray, up.k + 1)

Query ==
  /\ up.status = "idle"
  /\ \E queryVector \in QueryVectors, topK \in 1..MaxTopK, includeVectors \in BOOLEAN,
     filter \in Filters :
       LET args == [queryVector |-> queryVector, topK |-> topK,
                    includeVectors |-> includeVectors, filter |-> filter]
       IN  \E e \in ExecQuery(schema, table, queryVector, includeVectors, filter, topK) :
             /\ res' = QueryOutcome(args, e)
             /\ trav' = IdleTrav
             /\ UNCHANGED <<schema, table, up, hist, calls, config>>

List ==
  /\ up.status = "idle"
  /\ \E cursor \in Cursors, limit \in 1..MaxLimit, includeVectors \in BOOLEAN,
        includeMetadata \in BOOLEAN :
       LET args == [cursor |-> cursor, limit |-> limit, includeVectors |-> includeVectors,
                    includeMetadata |-> includeMetadata]
       IN  /\ res' = ListOutcome(args, ListEngine(schema, table, args))
           /\ trav' = IdleTrav
           /\ UNCHANGED <<schema, table, up, hist, calls, config>>

Retrieve ==
  /\ up.status = "idle"
  /\ \E single \in BOOLEAN, ids \in SeqsUpTo(Ids, MaxIds), includeVector \in BOOLEAN,
        includeMetadata \in BOOLEAN :
       LET args == [single |-> single, ids |-> ids, includeVector |-> includeVector,
                    includeMetadata |-> includeMetadata]
       IN  /\ single => Len(ids) = 1
           /\ \E e \in ExecRetrieve(schema, table, includeVector, includeMetadata, ids) :
                /\ res' = RetrieveOutcome(args, e)
                /\ trav' = IdleTrav
                /\ UNCHANGED <<schema, table, up, hist, calls, config>>

(* A caller's chained traversal, as the test "should list vectors with     *)
(* cursor" chains it: the first page is asked for without a cursor, each   *)
(* later page with the nextCursor of the page before, until it is null.    *)
(* The traversal records the identifiers the table held when it started:   *)
(* no operation deletes a row, so these are the identifiers present during *)
(* the whole of it.                                                        *)
TravAfter(t, limit, o) ==
  IF o.status # "ok" THEN IdleTrav
  ELSE [active |-> o.value.nextCursor # NullV,
        done |-> o.value.nextCursor = NullV,
        limit |-> limit,
        cursor |-> o.value.nextCursor,
        seen |-> t.seen \o [i \in 1..Len(o.value.items) |-> o.value.items[i].id.s],
        sizes |-> Append(t.sizes, Len(o.value.items)),
        dirty |-> t.dirty,
        start |-> t.start]

ListPage(t, args) ==
  \E o \in {ListOutcome(args, ListEngine(schema, table, args))} :
    /\ res' = o
    /\ trav' = TravAfter(t, args.limit, o)
    /\ UNCHANGED <<schema, table, up, hist, calls, config>>

ListStart ==
  /\ up.status = "idle"
  /\ \E limit \in 1..MaxLimit :
       ListPage([IdleTrav EXCEPT !.start = DOMAIN table],
                [cursor |-> Undefined, limit |-> limit,
                 includeVectors |-> FALSE, includeMetadata |-> TRUE])

ListNext ==
  /\ up.status = "idle"
  /\ trav.active
  /\ Len(trav.sizes) < MaxPages
  /\ ListPage(trav, [cursor |-> trav.cursor, limit |-> trav.limit,
                     includeVectors |-> FALSE, includeMetadata |-> TRUE])

Next ==
  \/ Initialize
  \/ UpsertCall
  \/ UpsertStep
  \/ Query
  \/ List
  \/ Retrieve
  \/ ListStart
  \/ ListNext

Spec == Init /\ [][Next]_vars

(* The writers alone, and the writers with one kind of reader: what a read *)
(* returns depends on the schema and the table only, which the writers     *)
(* alone change.                                                           *)
Write == Initialize \/ UpsertCall \/ UpsertStep

NextQuery == Write \/ Query

NextList == Write \/ List \/ ListStart \/ ListNext

NextRetrieve == Write \/ Retrieve

NextRead == Write \/ Query \/ List \/ Retrieve

SpecUpsert == Init /\ [][Write]_vars

SpecRead == Init /\ [][NextRead]_vars

NextArray == Initialize \/ UpsertArrayCall \/ UpsertArrayStep

SpecArray == Init /\ [][NextArray]_vars

SpecQuery == Init /\ [][NextQuery]_vars

SpecList == Init /\ [][NextList]_vars

SpecRetrieve == Init /\ [][NextRetrieve]_vars

(* The statement upsert builds, for every identifier and title of at most  *)
(* MaxLen characters among the quote, the comma, the closing parenthesis   *)
(* and a letter: one record upserted into the empty table of an            *)
(* initialized index.                                                      *)
TextChars == {39, 44, 41, 97}

TextRecords ==
  {[id |-> TextV(id), vector |-> <<1, 0>>, fields |-> [title |-> TextV(t), year |-> IntV(1)]] :
     id \in SeqsUpTo(TextChars, MaxLen), t \in SeqsUpTo(TextChars, MaxLen)}

InitEscape ==
  /\ config = Constructor(TestOptions)
  /\ schema = ExecCreateIndex(CreateIndexSql, ExecCreateTable(CreateTableSql, {}).schema).schema
  /\ table = EmptyTable
  /\ up = IdleUp
  /\ hist = EmptyTable
  /\ res = NoOutcome
  /\ trav = IdleTrav
  /\ calls = IdleCalls

UpsertText ==
  /\ table = EmptyTable
  /\ \E vec \in TextRecords : UpsertRecord(1, 1, vec)

SpecEscape == InitEscape /\ [][UpsertText]_vars

(* The round trip of one record: records whose identifier is a text or an  *)
(* integer are upserted one by one into an initialized index and looked up *)
(* one by one with retrieve.                                               *)
RoundTripIds == {IntV(1), TextV(<<49>>), TextV(<<79, 39>>)}    \* 1, "1" and "O'"

RoundTripRecords ==
  {[id |-> id, vector |-> v, fields |-> [title |-> t, year |-> IntV(1)]] :
     id \in RoundTripIds, v \in {<<1, 0>>, <<-1, 1>>}, t \in {TextV(<<79, 39>>), TextV(<<>>)}}

(* A parameter bound to WHERE id IN (?): the id column has TEXT affinity,  *)
(* so the engine compares the text of an integer parameter.                *)
BoundText(value) == IF value.kind = "int" THEN NumberToString(value.n) ELSE value.s

UpsertOne ==
  /\ up.status = "idle"
  /\ \E vec \in RoundTripRecords : UpsertRecord(1, 1, vec)

RetrieveOne ==
  /\ up.status = "idle"
  /\ \E id \in RoundTripIds, includeVector \in BOOLEAN, includeMetadata \in BOOLEAN :
       \E e \in ExecRetrieve(schema, table, includeVector, includeMetadata, <<BoundText(id)>>) :
         /\ res' = RetrieveOutcome([single |-> TRUE, ids |-> <<BoundText(id)>>, given |-> id,
                                    includeVector |-> includeVector,
                                    includeMetadata |-> includeMetadata], e)
         /\ trav' = IdleTrav
         /\ UNCHANGED <<schema, table, up, hist, calls, config>>

NextRoundTrip == UpsertOne \/ RetrieveOne

SpecRoundTrip == InitEscape /\ [][NextRoundTrip]_vars

(* Calls with an options object: a function from the keys the caller gave *)
(* to their values.  A key the caller left out takes the default of the    *)
(* destructuring (lines 130, 174-179 and 245).                             *)
DefaultLimit == 10

Option(options, key, default) == IF key \in DOMAIN options THEN options[key] ELSE default

FlagOptions(keys) == UNION {[K -> BOOLEAN] : K \in SUBSET keys}

(* includeMetadata defaulting to false. *)
ListArgsMetadataOff(options) ==
  [cursor |-> Option(options, "cursor", Undefined),
   limit |-> Option(options, "limit", DefaultLimit),
   includeVectors |-> Option(options, "includeVectors", FALSE),
   includeMetadata |-> Option(options, "includeMetadata", FALSE),
   options |-> options]

(* Lines 174-179. *)
ListArgs(options) ==
  [cursor |-> Option(options, "cursor", Undefined),
   limit |-> Option(options, "limit", DefaultLimit),
   includeVectors |-> Option(options, "includeVectors", FALSE),
   includeMetadata |-> Option(options, "includeMetadata", TRUE),
   options |-> options]

(* Line 245, for a single identifier or an array of them. *)
RetrieveArgs(single, ids, options) ==
  [single |-> single, ids |-> ids,
   includeVector |-> Option(options, "includeVector", TRUE),
   includeMetadata |-> Option(options, "includeMetadata", TRUE),
   options |-> options]

(* Line 130: topK has no default. *)
QueryArgs(queryVector, options) ==
  [queryVector |-> queryVector, topK |-> options["topK"],
   includeVectors |-> Option(options, "includeVectors", FALSE),
   filter |-> Option(options, "filter", ""),
   options |-> options]

ListOptionSets ==
  LET flags == FlagOptions({"includeVectors", "includeMetadata"})
  IN  flags \cup {WithField(f, "limit", n) : f \in flags, n \in 1..MaxLimit}

RetrieveOptionSets == FlagOptions({"includeVector", "includeMetadata"})

QueryOptionSets ==
  {WithField(f, "topK", n) : f \in FlagOptions({"includeVectors"}), n \in 1..MaxTopK}

(* The n-th record of a table filled in advance: identifiers 1, 2, ... *)
RecordNo(n) ==
  [id |-> IntV(n), vector |-> <<1, 0>>, fields |-> [title |-> TextV(<<79, 39>>), year |-> IntV(n)]]

RECURSIVE Filled(_)
(* The table after upsert of the records 1 to n into an initialized index. *)
Filled(n) ==
  IF n = 0 THEN EmptyTable
  ELSE ExecInsert(UpsertSql(RecordNo(n)),
                  ExecCreateIndex(CreateIndexSql, ExecCreateTable(CreateTableSql, {}).schema).schema,
                  Filled(n - 1)).table

FilledHist(n) ==
  [k \in {Key(RecordNo(i)) : i \in 1..n} |-> RecordNo(CHOOSE i \in 1..n : Key(RecordNo(i)) = k)]

(* The sizes of the tables the calls with options find: empty, small, and  *)
(* one row more than the default limit.                                    *)
FilledSizes == {0, MaxLimit, DefaultLimit + 1}

InitOptions ==
  /\ config = Constructor(TestOptions)
  /\ schema = ExecCreateIndex(CreateIndexSql, ExecCreateTable(CreateTableSql, {}).schema).schema
  /\ \E n \in FilledSizes : table = Filled(n) /\ hist = FilledHist(n)
  /\ up = IdleUp
  /\ res = NoOutcome
  /\ trav = IdleTrav
  /\ calls = IdleCalls

ListWithOptions ==
  \E options \in ListOptionSets :
    \E args \in {ListArgs(options)} :
      /\ res' = ListOutcome(args, ListEngine(schema, table, args))
      /\ trav' = IdleTrav
      /\ UNCHANGED <<schema, table, up, hist, calls, config>>

RetrieveWithOptions ==
  \E single \in BOOLEAN, ids \in SeqsUpTo({<<49>>, <<50>>, <<57, 57>>}, MaxIds),
     options \in RetrieveOptionSets :
    \E args \in {RetrieveArgs(single, ids, options)} :
      /\ single => Len(ids) = 1
      /\ \E e \in ExecRetrieve(schema, table, args.includeVector, args.includeMetadata, ids) :
           /\ res' = RetrieveOutcome(args, e)
           /\ trav' = IdleTrav
           /\ UNCHANGED <<schema, table, up, hist, calls, config>>

(* query ranks every row of the table: it is called on the tables of at    *)
(* most MaxRanked rows.                                                    *)
QueryWithOptions ==
  /\ Cardinality(DOMAIN table) <= MaxRanked
  /\ \E queryVector \in {<<1, 0>>, <<0, 1>>}, options \in QueryOptionSets :
       \E args \in {QueryArgs(queryVector, options)} :
         \E e \in ExecQuery(schema, table, queryVector, args.includeVectors, args.filter,
                            args.topK) :
           /\ res' = QueryOutcome(args, e)
           /\ trav' = IdleTrav
           /\ UNCHANGED <<schema, table, up, hist, calls, config>>

NextOptions == ListWithOptions \/ RetrieveWithOptions \/ QueryWithOptions

SpecOptions == InitOptions /\ [][NextOptions]_vars

(* Two callers call upsert, each with an array, without awaiting each      *)
(* other: each call awaits its own statements only (line 120), and the     *)
(* engine executes the statements of both one at a time, in any order that *)
(* keeps the order of each call.                                           *)
ConcurrentRecords == {vec \in ArrayRecords : vec.fields["title"] # Undefined}

ConcurrentArrays == SeqsUpTo(ConcurrentRecords, MaxBatch) \ {<<>>}

ConcurrentCall(c) ==
  /\ calls[c].status = "idle"
  /\ \E vectorArray \in ConcurrentArrays :
       calls' = [calls EXCEPT ![c] = [status |-> "running", k |-> 0,
                                      vectorArray |-> vectorArray]]
  /\ UNCHANGED <<schema, table, up, hist, res, trav, config>>

(* The engine answered e to the statement of vec, the next record of the   *)
(* call of caller c.                                                       *)
ConcurrentExecuted(c, call, vec, e) ==
  /\ table' = e.table
  /\ hist' = IF e.ok THEN Put(hist, Key(vec), vec) ELSE hist
  /\ calls' = [calls EXCEPT ![c] =
                 [status |-> IF ~e.ok THEN "error"
                             ELSE IF call.k + 1 = Len(call.vectorArray) THEN "ok"
                             ELSE "running",
                  k |-> call.k + 1,
                  vectorArray |-> call.vectorArray]]
  /\ UNCHANGED <<schema, up, res, trav, config>>

ConcurrentRecord(c, call, vec) ==
  ConcurrentExecuted(c, call, vec, ExecInsert(UpsertSql(vec), schema, table))

ConcurrentStep(c) ==
  /\ calls[c].status = "running"
  /\ ConcurrentRecord(c, calls[c], calls[c].vectorArray[calls[c].k + 1])

NextConcurrent == \E c \in Callers : ConcurrentCall(c) \/ ConcurrentStep(c)

SpecConcurrent == InitEscape /\ [][NextConcurrent]_vars

(* Calls on a connection that may fail: client.execute rejects with        *)
(* SQLITE_BUSY, and the statement has no effect, whenever fault names the  *)
(* statement ("" when the connection does not fail).                       *)

(* The statement is issued again after a rejection. *)
AnsweredAfterRetry(fault, failure, e) == e

(* await client.execute(...) (lines 120, 151, 205, 265, 299 and 307): the  *)
(* answer e of the engine, or the rejection of the connection.             *)
Answered(fault, failure, e) == IF fault THEN failure ELSE e

Busy == EngineError("SQLITE_BUSY")

InitializeFaulty ==
  /\ up.status = "idle"
  /\ \E fault \in {"", "createTable", "createIndex"} :
       \E t \in {Answered(fault = "createTable", [ok |-> FALSE, schema |-> schema],
                          ExecCreateTable(CreateTableSql, schema))} :
         IF ~t.ok THEN Initialized(t, "createTable", fault)
         ELSE Initialized(Answered(fault = "createIndex", [ok |-> FALSE, schema |-> t.schema],
                                   ExecCreateIndex(CreateIndexSql, t.schema)),
                          "createIndex", fault)

UpsertFaulty ==
  /\ up.status = "idle"
  /\ \E vec \in Records, fault \in {"", "execute"} :
       UpsertExecuted([n |-> 1, k |-> 1, vec |-> vec, fault |-> fault,
                       prior |-> IF Key(vec) \in DOMAIN table THEN table[Key(vec)] ELSE NullV],
                      Answered(fault = "execute",
                               [ok |-> FALSE, error |-> "SQLITE_BUSY", table |-> table],
                               ExecInsert(UpsertSql(vec), schema, table)),
                      <<>>)

QueryFaulty ==
  /\ up.status = "idle"
  /\ \E queryVector \in QueryVectors, filter \in Filters, fault \in {"", "execute"} :
       \E e \in ExecQuery(schema, table, queryVector, FALSE, filter, MaxTopK) :
         /\ res' = QueryOutcome([queryVector |-> queryVector, topK |-> MaxTopK,
                                 includeVectors |-> FALSE, filter |-> filter,
                                 fault |-> fault],
                                Answered(fault = "execute", Busy, e))
         /\ trav' = IdleTrav
         /\ UNCHANGED <<schema, table, up, hist, calls, config>>

ListFaulty ==
  /\ up.status = "idle"
  /\ \E limit \in 1..MaxLimit, fault \in {"", "execute"} :
       \E args \in {[cursor |-> Undefined, limit |-> limit, includeVectors |-> FALSE,
                     includeMetadata |-> TRUE, fault |-> fault]} :
         /\ res' = ListOutcome(args, Answered(fault = "execute", Busy,
                                              ListEngine(schema, table, args)))
         /\ trav' = IdleTrav
         /\ UNCHANGED <<schema, table, up, hist, calls, config>>

RetrieveFaulty ==
  /\ up.status = "idle"
  /\ \E ids \in SeqsUpTo(Ids, MaxIds), fault \in {"", "execute"} :
       \E e \in ExecRetrieve(schema, table, TRUE, TRUE, ids) :
         /\ res' = RetrieveOutcome([single |-> FALSE, ids |-> ids, includeVector |-> TRUE,
                                    includeMetadata |-> TRUE, fault |-> fault],
                                   Answered(fault = "execute", Busy, e))
         /\ trav' = IdleTrav
         /\ UNCHANGED <<schema, table, up, hist, calls, config>>

NextFaulty ==
  \/ InitializeFaulty
  \/ UpsertFaulty
  \/ QueryFaulty
  \/ ListFaulty
  \/ RetrieveFaulty

SpecFaulty == Init /\ [][NextFaulty]_vars

(* Decoding of the vector column: the engine answers with one row whose    *)
(* vector is one of the values a Value can be, and query, list and         *)
(* retrieve, asked for vectors, map the row.                               *)
BracketedLists == {<<91, 49, 44, 48, 93>>, <<91, 93>>}          \* [1,0] and []

WireValues ==
  {TextV(t) : t \in BracketedLists}
    \cup {TextV(<<53>>), TextV(JsonNull), TextV(<<97, 98, 99>>), TextV(<<>>)}
    \cup {BlobV(<<1, 0>>), NullV, IntV(5), IntV(0)}

WireRow(id, value) ==
  [c \in {"id", "vector"} \cup ColNames |->
     IF c = "id" THEN id
     ELSE IF c = "vector" THEN value
     ELSE IF c = "title" THEN TextV(<<79, 39>>)
     ELSE IntV(1)]

DecodeQuery ==
  \E id \in {TextV(<<49>>), IntV(1)}, value \in WireValues :
    /\ res' = QueryOutcome([queryVector |-> <<1, 0>>, topK |-> 1, includeVectors |-> TRUE,
                            filter |-> "", wants |-> TRUE],
                           EngineRows(<<WithField(WireRow(id, value), "similarity", IntV(1))>>))
    /\ UNCHANGED <<schema, table, up, hist, trav, calls, config>>

DecodeList ==
  \E id \in {TextV(<<49>>), IntV(1)}, value \in WireValues, includeMetadata \in BOOLEAN :
    /\ res' = ListOutcome([cursor |-> Undefined, limit |-> 1, includeVectors |-> TRUE,
                           includeMetadata |-> includeMetadata, wants |-> TRUE],
                          EngineRows(<<WireRow(id, value)>>))
    /\ UNCHANGED <<schema, table, up, hist, trav, calls, config>>

DecodeRetrieve ==
  \E id \in {TextV(<<49>>), IntV(1)}, value \in WireValues, includeMetadata \in BOOLEAN,
     single \in BOOLEAN :
    /\ res' = RetrieveOutcome([single |-> single, ids |-> <<<<49>>>>, includeVector |-> TRUE,
                               includeMetadata |-> includeMetadata, wants |-> TRUE],
                              EngineRows(<<WireRow(id, value)>>))
    /\ UNCHANGED <<schema, table, up, hist, trav, calls, config>>

NextDecode == DecodeQuery \/ DecodeList \/ DecodeRetrieve

SpecDecode == InitEscape /\ [][NextDecode]_vars

(* Indexes constructed with the options of the tests, with and without a  *)
(* table name and a debug flag, on a connection that may fail.             *)
IndexOptionSets ==
  {TestOptions,
   WithField(TestOptions, "tableName", "docs"),
   WithField(WithField(TestOptions, "tableName", ""), "debug", TRUE)}

InitConfig ==
  /\ \E options \in IndexOptionSets : config = Constructor(options)
  /\ schema \in {{}, {ForeignTable}}
  /\ table = EmptyTable
  /\ up = IdleUp
  /\ hist = EmptyTable
  /\ res = NoOutcome
  /\ trav = IdleTrav
  /\ calls = IdleCalls

SpecConfig == InitConfig /\ [][NextFaulty]_vars

----------------------------------------------------------------------------
(* Properties. *)

(* The row the engine holds for a record once its statement is accepted. *)
StoredRow(vec) ==
  [id |-> Key(vec), embedding |-> vec.vector, cols |-> [c \in ColNames |-> vec.fields[c]]]

Complete(vec) == \A c \in ColNames : vec.fields[c] # Undefined

Range(seq) == {seq[i] : i \in 1..Len(seq)}

NoDuplicates(seq) == \A i, j \in 1..Len(seq) : i # j => seq[i] # seq[j]

Max(a, b) == IF a > b THEN a ELSE b

Ceil(a, b) == (a + b - 1) \div b

UpsertRan == res.op = "upsert" /\ res.args.k > 0 /\ TableReady(schema)

(* C1: in a chained traversal of a table that is not modified, no          *)
(* identifier is visited twice, and when the traversal ends with a null    *)
(* nextCursor the identifiers visited are exactly those of the table and   *)
(* the pages fetched are ceil(N / L) (one page for an empty table).        *)
C1_TraversalVisitsEachOnce ==
  (trav.sizes # <<>> /\ ~trav.dirty) =>
    /\ NoDuplicates(trav.seen)
    /\ trav.done =>
         /\ Range(trav.seen) = DOMAIN table
         /\ Len(trav.sizes) = Max(1, Ceil(Cardinality(DOMAIN table), trav.limit))

(* C2: the table holds one row for each identifier upserted, carrying the  *)
(* values of the latest upsert of that identifier, and the upsert of a     *)
(* record with all its values does not fail, whether or not the table      *)
(* already holds its identifier.                                           *)
C2_OneRowPerIdentifier ==
  /\ DOMAIN table = DOMAIN hist
  /\ \A id \in DOMAIN table : table[id] = StoredRow(hist[id])
  /\ (UpsertRan /\ Complete(res.args.vec)) =>
       /\ res.status # "error"
       /\ hist[Key(res.args.vec)] = res.args.vec

(* C2 witness: a record was upserted whose identifier the table held with  *)
(* other values. *)
C2_Witness ==
  /\ UpsertRan
  /\ res.status = "ok"
  /\ res.args.prior # NullV
  /\ res.args.prior # StoredRow(res.args.vec)
  /\ table[Key(res.args.vec)] = StoredRow(res.args.vec)

(* C3: the upsert of a record that lacks a configured column succeeds and  *)
(* the row stored for it holds NULL in that column.                        *)
C3_MissingColumnStoredAsNull ==
  \A c \in ColNames :
    (UpsertRan /\ res.args.vec.fields[c] = Undefined) =>
      /\ res.status # "error"
      /\ Key(res.args.vec) \in DOMAIN table
      /\ table[Key(res.args.vec)].cols[c] = NullV

(* C4: whatever characters the identifier and the title of a record hold,  *)
(* its statement is accepted and stores exactly these texts, as one row.   *)
C4_TextStoredAsData ==
  (UpsertRan /\ Complete(res.args.vec)) =>
    /\ res.status = "ok"
    /\ DOMAIN table = {Key(res.args.vec)}
    /\ table[Key(res.args.vec)] = StoredRow(res.args.vec)

(* C4 witness: a record whose identifier and title both hold a quote was   *)
(* upserted. *)
C4_Witness ==
  /\ UpsertRan
  /\ res.status = "ok"
  /\ 39 \in Range(Key(res.args.vec))
  /\ 39 \in Range(res.args.vec.fields["title"].s)

QueryReturned == res.op = "query" /\ res.status = "ok"

Scores == [i \in 1..Len(res.value) |-> res.value[i].score]

(* C5: a query returns at most topK entries, in an order in which the      *)
(* score never increases.                                                  *)
C5_AtMostTopKDescending ==
  QueryReturned =>
    /\ Len(res.value) <= res.args.topK
    /\ \A i \in 1..(Len(res.value) - 1) : RealLeq(Scores[i + 1], Scores[i])

(* C5 witness: a query cut by topK returned two entries of different       *)
(* scores. *)
C5_Witness ==
  /\ QueryReturned
  /\ Len(res.value) = 2
  /\ Cardinality(DOMAIN table) > res.args.topK
  /\ ~RealLeq(Scores[1], Scores[2])

Matching(filter) == {id \in DOMAIN table : FilterHolds(filter, table[id])}

(* C7: a query with a filter returns rows that satisfy the filter only, as *)
(* many of them as there are up to topK, each once, in an order in which   *)
(* the score never increases.                                              *)
C7_FilteredQuery ==
  (QueryReturned /\ res.args.filter # "") =>
    /\ \A i \in 1..Len(res.value) : res.value[i].id.s \in Matching(res.args.filter)
    /\ NoDuplicates([i \in 1..Len(res.value) |-> res.value[i].id.s])
    /\ Len(res.value) = Min(res.args.topK, Cardinality(Matching(res.args.filter)))
    /\ \A i, j \in 1..Len(res.value) : i < j => RealLeq(Scores[j], Scores[i])

(* C7 witness: of three records, a query with topK = 2 and a filter that   *)
(* excludes "1" returned the two others. *)
C7_Witness ==
  /\ QueryReturned
  /\ DOMAIN table = Ids
  /\ res.args.filter = "id <> '1'"
  /\ res.args.topK = 2
  /\ {res.value[i].id.s : i \in 1..Len(res.value)} = Ids \ {<<49>>}

(* C8: on an initialized index, a query whose vector has not the           *)
(* configured dimensionality fails with a QueryError that the facade       *)
(* raises itself.                                                          *)
C8_DimensionValidated ==
  (res.op = "query" /\ TableReady(schema) /\ Len(res.args.queryVector) # dimensions) =>
    /\ res.status = "error"
    /\ res.error = "QueryError"

RetrieveReturned == res.op = "retrieve" /\ res.status = "ok"

IdsOf(items) == [i \in 1..Len(items) |-> items[i].id.s]

(* C9: retrieve does not throw on an initialized index.  With an array it  *)
(* returns the records of the identifiers the table holds among those       *)
(* asked for, each once, in the order of the engine's rows; with one        *)
(* identifier it returns the record, or undefined when the table has none.  *)
C9_RetrieveExisting ==
  (res.op = "retrieve" /\ TableReady(schema)) =>
    /\ res.status = "ok"
    /\ ~res.args.single =>
         /\ IdsOf(res.value) = [i \in 1..Len(res.rows) |-> res.rows[i]["id"].s]
         /\ Range(IdsOf(res.value)) = Range(res.args.ids) \cap DOMAIN table
         /\ NoDuplicates(IdsOf(res.value))
    /\ res.args.single =>
         IF res.args.ids[1] \in DOMAIN table
         THEN res.value # Undefined /\ res.value.id = TextV(res.args.ids[1])
         ELSE res.value = Undefined

(* C9 witness: two identifiers were asked for, one of which the table does *)
(* not hold, and one record came back. *)
C9_Witness ==
  /\ RetrieveReturned
  /\ ~res.args.single
  /\ Len(res.args.ids) = 2
  /\ res.args.ids[1] # res.args.ids[2]
  /\ Len(res.value) = 1

PastLast(cursor) ==
  cursor.kind = "text" /\ \A id \in DOMAIN table : LexLess(id, cursor.s)

(* C10: list on an empty table, or with a cursor greater than every        *)
(* identifier, returns no item and a null nextCursor, whatever its limit   *)
(* and flags.                                                              *)
C10_EmptyPage ==
  (res.op = "list" /\ TableReady(schema)
     /\ (DOMAIN table = {} \/ PastLast(res.args.cursor))) =>
    /\ res.status = "ok"
    /\ res.value.items = <<>>
    /\ res.value.nextCursor = NullV

(* C10 witness: list with a cursor past the last identifier of a table     *)
(* that holds rows, with vectors asked for and metadata not. *)
C10_Witness ==
  /\ res.op = "list"
  /\ res.status = "ok"
  /\ DOMAIN table # {}
  /\ PastLast(res.args.cursor)
  /\ res.args.includeVectors
  /\ ~res.args.includeMetadata
  /\ res.value.items = <<>>

(* C11: a call of initialize that returns leaves exactly one table, the    *)
(* configured one, and exactly one index, idx_<tableName>_embedding on it; *)
(* a call made when an earlier one has created the index (a second or      *)
(* later call) raises no error and leaves the schema as it found it; and   *)
(* every call leaves the rows as it found them.                            *)
C11_InitializeIdempotent ==
  (res.op = "initialize") =>
    /\ table = res.args.table
    /\ (res.status = "ok") =>
         /\ {o \in schema : o.type = "table"} =
              {TableObject("vector_index", TableColumns)}
         /\ {o \in schema : o.type = "index"} =
              {IndexObject("idx_vector_index_embedding", "vector_index", "embedding")}
         /\ Cardinality(schema) = 2
    /\ (Named(res.args.schema, "index", "idx_vector_index_embedding") # {}) =>
         /\ res.status = "ok"
         /\ schema = res.args.schema

(* C11 witness: initialize was called again on an index that holds rows. *)
C11_Witness ==
  /\ res.op = "initialize"
  /\ res.status = "ok"
  /\ Named(res.args.schema, "index", "idx_vector_index_embedding") # {}
  /\ Cardinality(DOMAIN table) = 2

(* A single retrieve returned, of an identifier whose latest upsert the    *)
(* engine accepted.                                                        *)
RetrievedUpserted ==
  /\ res.op = "retrieve"
  /\ res.status = "ok"
  /\ res.args.single
  /\ res.args.ids[1] \in DOMAIN hist

(* The vector and the metadata of the item are those of the record. *)
SameContent(item, vec, args) ==
  /\ item # Undefined
  /\ args.includeVector => item.vector = VecV(vec.vector)
  /\ args.includeMetadata => item.metadata = vec.fields

OtherKeys(item) == (DOMAIN item) \ {"id", "score", "vector"}

(* The items a call returned: the array of query, the items of list, the   *)
(* array of retrieve or its single result.                                 *)
ItemsReturned ==
  IF res.op = "query" THEN Range(res.value)
  ELSE IF res.op = "list" THEN Range(res.value.items)
  ELSE IF ~res.args.single THEN Range(res.value)
  ELSE IF res.value = Undefined THEN {}
  ELSE {res.value}

(* The row of the table an item stands for. *)
RowOf(item) == table[IdToString(item.id)]

(* C13: every query result has, next to id and score (and vector), one key *)
(* per configured column holding the value of the row, and no metadata     *)
(* key; every list item and retrieve result has no column key of its own,  *)
(* and its metadata, when it has one, maps exactly the configured column   *)
(* names to the values of the row.                                         *)
C13_FlattenedOrNested ==
  /\ QueryReturned =>
       \A item \in ItemsReturned :
         /\ OtherKeys(item) = {"title", "year"}
         /\ \A c \in {"title", "year"} : item[c] = RowOf(item).cols[c]
  /\ (res.op \in {"list", "retrieve"} /\ res.status = "ok") =>
       \A item \in ItemsReturned :
         /\ OtherKeys(item) \subseteq {"metadata"}
         /\ res.args.includeMetadata =>
              /\ "metadata" \in DOMAIN item
              /\ DOMAIN item.metadata = {"title", "year"}
              /\ \A c \in {"title", "year"} : item.metadata[c] = RowOf(item).cols[c]

(* C13 witness: a query returned a row with its columns at the top level;  *)
(* C13_WitnessNested: a list or a retrieve returned one with its columns   *)
(* under metadata.                                                         *)
C13_Witness ==
  /\ QueryReturned
  /\ \E item \in ItemsReturned : item["title"] = TextV(<<79, 39>>) /\ item["year"] = IntV(2)

C13_WitnessNested ==
  /\ res.op \in {"list", "retrieve"}
  /\ res.status = "ok"
  /\ \E item \in ItemsReturned :
       /\ "metadata" \in DOMAIN item
       /\ item.metadata["title"] = TextV(<<79, 39>>)
       /\ item.metadata["year"] = IntV(2)

(* What the caller asked for with an options object: the flag key is TRUE  *)
(* when given, and otherwise TRUE exactly when its default is.             *)
Asked(key, default) ==
  IF key \in DOMAIN res.args.options THEN res.args.options[key] ELSE default

(* C14: with the options the caller gave, a list item has a vector only    *)
(* when includeVectors was given as true and a metadata mapping exactly    *)
(* when includeMetadata was not given as false, and the items are at most  *)
(* the limit given, or 10 when none was; a retrieve result has a vector    *)
(* only when includeVector was not given as false and metadata exactly     *)
(* when includeMetadata was not given as false; a query result has a       *)
(* vector only when includeVectors was given as true.                      *)
C14_OptionalFieldsFollowFlags ==
  /\ (res.op = "list" /\ res.status = "ok") =>
       /\ Len(res.value.items) <=
            (IF "limit" \in DOMAIN res.args.options THEN res.args.options["limit"] ELSE 10)
       /\ \A item \in ItemsReturned :
            /\ "vector" \in DOMAIN item => Asked("includeVectors", FALSE)
            /\ "metadata" \in DOMAIN item <=> Asked("includeMetadata", TRUE)
  /\ (res.op = "retrieve" /\ res.status = "ok") =>
       \A item \in ItemsReturned :
         /\ "vector" \in DOMAIN item => Asked("includeVector", TRUE)
         /\ "metadata" \in DOMAIN item <=> Asked("includeMetadata", TRUE)
  /\ (res.op = "query" /\ res.status = "ok") =>
       \A item \in ItemsReturned :
         "vector" \in DOMAIN item => Asked("includeVectors", FALSE)

(* C14 witness: list called without any option on a table of 11 rows       *)
(* returned 10 items, each with metadata and without a vector.             *)
C14_Witness ==
  /\ res.op = "list"
  /\ res.status = "ok"
  /\ DOMAIN res.args.options = {}
  /\ Cardinality(DOMAIN table) = 11
  /\ Len(res.value.items) = 10
  /\ \A item \in ItemsReturned : DOMAIN item = {"id", "metadata"}

(* The identifiers of the table that are greater than the cursor of the    *)
(* call; all of them when the call has no cursor.                          *)
AfterCursor ==
  {id \in DOMAIN table : res.args.cursor = Undefined \/ LexLess(res.args.cursor.s, id)}

(* The page of a list call is the one the cursor and the limit define: the *)
(* engine was asked for limit + 1 of the rows after the cursor; the items  *)
(* are the least limit of them, in ascending order; nextCursor is the      *)
(* identifier of the last item when there are more rows after the cursor   *)
(* than the limit, and null otherwise.                                     *)
PageOf(ids, after, limit) ==
  /\ res.status = "ok"
  /\ Len(res.rows) = Min(limit + 1, Cardinality(after))
  /\ Len(ids) = Min(limit, Cardinality(after))
  /\ \A i, j \in 1..Len(ids) : i < j => LexLess(ids[i], ids[j])
  /\ Range(ids) \subseteq after
  /\ \A x \in after \ Range(ids) : \A y \in Range(ids) : LexLess(y, x)
  /\ res.value.nextCursor =
       (IF Cardinality(after) > limit THEN TextV(ids[limit]) ELSE NullV)
  /\ res.value.nextCursor # NullV => res.value.nextCursor = TextV(ids[Len(ids)])
  /\ res.args.cursor # Undefined => \A i \in 1..Len(ids) : LexLess(res.args.cursor.s, ids[i])

ListRan == res.op = "list" /\ TableReady(schema)

(* C15: every list call returns the page its cursor and its limit define. *)
C15_ListPage ==
  ListRan => PageOf(IdsOf(res.value.items), AfterCursor, res.args.limit)

(* The same for the calls whose cursor is not the empty text. *)
ListPageNonEmptyCursor ==
  (ListRan /\ res.args.cursor # TextV(<<>>)) =>
    PageOf(IdsOf(res.value.items), AfterCursor, res.args.limit)

(* The last of the first m records of an array that has the identifier of  *)
(* the j-th.                                                               *)
LatestOf(vectorArray, m, j) ==
  vectorArray[CHOOSE i \in j..m :
                /\ Key(vectorArray[i]) = Key(vectorArray[j])
                /\ \A l \in (i + 1)..m : Key(vectorArray[l]) # Key(vectorArray[j])]

(* The first m records of the array are written: each has its row, with    *)
(* the values of the last of them that has its identifier.                 *)
Written(vectorArray, m) ==
  \A j \in 1..m :
    /\ Key(vectorArray[j]) \in DOMAIN table
    /\ table[Key(vectorArray[j])] = StoredRow(LatestOf(vectorArray, m, j))

ArrayUpsertRan == res.op = "upsert" /\ res.args.n > 0

(* C16: in an upsert of an array the k-th statement is that of the k-th    *)
(* record and is executed when the k - 1 before it were accepted.  When    *)
(* the engine rejects it the call fails with the engine's error, the table *)
(* is as the statement found it with records 1..k-1 written, and the call  *)
(* makes no further statement.  While it is accepted records 1..k are      *)
(* written and the call goes on, returning "Success" at k = n only.        *)
C16_UpsertStopsAtFirstFailure ==
  ArrayUpsertRan =>
    /\ res.args.vec = res.args.vectorArray[res.args.k]
    /\ (res.status = "error") =>
         /\ res.error # ""
         /\ table = res.args.before
         /\ Written(res.args.vectorArray, res.args.k - 1)
         /\ up = IdleUp
    /\ (res.status = "pending") =>
         /\ res.args.k < res.args.n
         /\ Written(res.args.vectorArray, res.args.k)
         /\ up.status = "running" /\ up.k = res.args.k
         /\ up.vectorArray = res.args.vectorArray
    /\ (res.status = "ok") =>
         /\ res.value = "Success"
         /\ res.args.k = res.args.n
         /\ Written(res.args.vectorArray, res.args.n)
         /\ up = IdleUp

(* C16 witness: the second statement of an array of two records, for two   *)
(* identifiers, was rejected: the first record is written, the second is   *)
(* not.                                                                    *)
C16_Witness ==
  /\ ArrayUpsertRan
  /\ res.status = "error"
  /\ res.args.k = 2
  /\ Key(res.args.vectorArray[1]) # Key(res.args.vectorArray[2])
  /\ DOMAIN table = {Key(res.args.vectorArray[1])}
  /\ table[Key(res.args.vectorArray[1])] = StoredRow(res.args.vectorArray[1])

(* The keys of the records of an array. *)
KeysOf(vectorArray) == {Key(vectorArray[j]) : j \in 1..Len(vectorArray)}

(* The row that the call of caller c leaves for an identifier when it runs *)
(* alone: that of the last record of its array with the identifier.        *)
FinalRows(c, id) ==
  {StoredRow(LatestOf(calls[c].vectorArray, Len(calls[c].vectorArray), j)) :
     j \in {i \in 1..Len(calls[c].vectorArray) : Key(calls[c].vectorArray[i]) = id}}

(* C17: however the statements of two concurrent upsert calls interleave,  *)
(* no call fails, every row of the table is the whole row of a record one  *)
(* of the calls has written, and when both calls have returned the row of  *)
(* every identifier is the one that one of the two calls leaves for it.    *)
C17_ConcurrentUpserts ==
  /\ \A c \in Callers : calls[c].status # "error"
  /\ \A id \in DOMAIN table :
       \E c \in Callers : \E j \in 1..calls[c].k :
         table[id] = StoredRow(calls[c].vectorArray[j])
  /\ (\A c \in Callers : calls[c].status = "ok") =>
       /\ DOMAIN table = UNION {KeysOf(calls[c].vectorArray) : c \in Callers}
       /\ \A id \in DOMAIN table : \E c \in Callers : table[id] \in FinalRows(c, id)

(* C17 witness: both calls wrote two identifiers, with different values,   *)
(* and have returned; the table holds the row of the first call for one    *)
(* identifier and the row of the second call for the other.                *)
C17_Witness ==
  /\ \A c \in Callers : calls[c].status = "ok"
  /\ \E a, b \in DOMAIN table :
       /\ a # b
       /\ table[a] \in FinalRows(1, a) /\ table[a] \notin FinalRows(2, a)
       /\ table[b] \in FinalRows(2, b) /\ table[b] \notin FinalRows(1, b)
       /\ FinalRows(2, a) # {} /\ FinalRows(1, b) # {}

(* The last call was one of the five operations. *)
Called == res.op \in {"initialize", "upsert", "query", "list", "retrieve"}

(* A statement of the last call failed: the connection rejected it, or the *)
(* engine did: the table or one of its columns is missing, the filter is   *)
(* not an expression, the record lacks a value, or a row to rank has a     *)
(* vector of another length than the query vector.                         *)
EngineCallFailed ==
  \/ res.args.fault # ""
  \/ res.op = "initialize" /\ ForeignTable \in res.args.schema
  \/ res.op \in {"upsert", "query", "list", "retrieve"} /\ ~TableReady(schema)
  \/ res.op = "upsert" /\ ~Complete(res.args.vec)
  \/ res.op = "query" /\ ~FilterValid(res.args.filter)
  \/ res.op = "query" /\ \E id \in Matching(res.args.filter) :
                            Len(table[id].embedding) # Len(res.args.queryVector)

(* The statement the connection rejected had no effect, and initialize     *)
(* made no later statement.                                                *)
NoEffect ==
  /\ res.op = "upsert" =>
       IF res.args.prior = NullV THEN Key(res.args.vec) \notin DOMAIN table
       ELSE table[Key(res.args.vec)] = res.args.prior
  /\ res.op = "initialize" =>
       /\ res.args.step = res.args.fault
       /\ Named(schema, "index", "idx_vector_index_embedding") =
            Named(res.args.schema, "index", "idx_vector_index_embedding")

(* C18: a call in which a statement failed has failed: it has returned     *)
(* nothing, neither items nor a cursor nor "Success"; and the statement    *)
(* the connection rejected was not issued again.                           *)
C18_EngineFailureSurfaces ==
  (Called /\ EngineCallFailed) =>
    /\ res.status = "error"
    /\ res.value = Undefined
    /\ res.error # ""
    /\ (res.args.fault # "") => NoEffect

(* C18 witness: list on a table with rows, rejected by the connection. *)
C18_Witness ==
  /\ res.op = "list"
  /\ res.args.fault = "execute"
  /\ TableReady(schema)
  /\ DOMAIN table # {}
  /\ res.status = "error"

(* The vector column of the row the last call mapped, and the item it made *)
(* of the row.                                                             *)
WireVector == res.rows[1]["vector"]

Decoded == CHOOSE item \in ItemsReturned : TRUE

(* The numbers a wire shape holds: a bracketed list or a float buffer. *)
Numbers(value) ==
  IF value.kind = "blob" THEN value.s
  ELSE IF value.s = <<91, 93>> THEN <<>>
  ELSE <<1, 0>>

IsVectorShape(value) ==
  value.kind = "blob" \/ (value.kind = "text" /\ value.s \in BracketedLists)

DecodeRan == res.op \in {"query", "list", "retrieve"} /\ res.args.wants

(* C19: a row whose vector is a bracketed numeric list or a float buffer   *)
(* is mapped to an item with the numbers as its vector; a null vector      *)
(* gives an item without a vector in list and retrieve and an error in     *)
(* query; a vector of any other shape is an error.                         *)
C19_VectorDecoding ==
  DecodeRan =>
    IF IsVectorShape(WireVector)
      THEN res.status = "ok" /\ Decoded.vector = VecV(Numbers(WireVector))
    ELSE IF WireVector = NullV /\ res.op # "query"
      THEN res.status = "ok" /\ "vector" \notin DOMAIN Decoded
    ELSE res.status = "error"

(* What the code does: besides the two shapes, a text that is JSON of      *)
(* another kind is returned as JSON.parse reads it; a null vector gives an *)
(* item whose vector is undefined in query and an item without a vector in *)
(* list and retrieve, as do the other falsy values there (the empty text   *)
(* and 0); the shapes left are an error.                                   *)
VectorDecodingOfTheCode ==
  DecodeRan =>
    IF IsVectorShape(WireVector)
      THEN res.status = "ok" /\ Decoded.vector = VecV(Numbers(WireVector))
    ELSE IF res.op # "query" /\ WireVector \in {NullV, TextV(<<>>), IntV(0)}
      THEN res.status = "ok" /\ "vector" \notin DOMAIN Decoded
    ELSE IF WireVector = NullV
      THEN res.status = "ok" /\ Decoded.vector = Undefined
    ELSE IF WireVector = TextV(<<53>>)
      THEN res.status = "ok" /\ Decoded.vector = IntV(5)
    ELSE IF WireVector = TextV(JsonNull)
      THEN res.status = "ok" /\ Decoded.vector = NullV
    ELSE res.status = "error"

(* The configurations the constructor makes of the options of the model:   *)
(* the table name given, or vector_index when none or an empty one is; the *)
(* debug flag given, or false.                                             *)
Constructed ==
  {[tableName |-> "vector_index", dimensions |-> 2, columns |-> TestColumns, debug |-> FALSE],
   [tableName |-> "docs", dimensions |-> 2, columns |-> TestColumns, debug |-> FALSE],
   [tableName |-> "vector_index", dimensions |-> 2, columns |-> TestColumns, debug |-> TRUE]}

(* Every table of the database has the configured name and, when the index *)
(* made it, the configured columns; every index is on it.                  *)
OneTarget ==
  \A o \in schema :
    /\ o.on = config.tableName
    /\ o.type = "table" =>
         o.cols \in {{"id"},
                     {"id", "embedding"} \cup {config.columns[i].name : i \in 1..Len(config.columns)}}

(* C20: the configuration is what the constructor made of the options,     *)
(* with vector_index for a table name that is not set; no step of          *)
(* initialize, upsert, query, list or retrieve changes it; and the objects *)
(* the statements made are all on the one configured table.                *)
C20_ConfigurationFixed ==
  /\ [](config \in Constructed /\ OneTarget)
  /\ [][config' = config]_vars

(* C20 witness: on an index constructed with a table name, initialize,     *)
(* upsert and retrieve have run.                                           *)
C20_Witness ==
  /\ config.tableName = "docs"
  /\ Named(schema, "index", "idx_docs_embedding") # {}
  /\ DOMAIN table # {}
  /\ res.op = "retrieve"
  /\ res.status = "ok"
  /\ Len(res.value) > 0

StrictlyIncreasing(seq) == \A i \in 1..(Len(seq) - 1) : LexLess(seq[i], seq[i + 1])

TraversalInOrder ==
  /\ StrictlyIncreasing(trav.seen)
  /\ NoDuplicates(trav.seen)
  /\ trav.done => trav.start \subseteq Range(trav.seen)

(* C21: in a chained traversal, with upserts of new or existing            *)
(* identifiers between the page requests or none, the identifiers returned *)
(* are strictly increasing over the whole traversal, none is returned      *)
(* twice, and when the null cursor is reached every identifier the table   *)
(* held from the start of the traversal on has been returned.              *)
C21_TraversalUnderUpserts ==
  trav.sizes # <<>> => TraversalInOrder

(* What the code does keep: the same, for a table that holds no row whose  *)
(* identifier is the empty string.                                         *)
TraversalWithoutEmptyIdentifier ==
  (trav.sizes # <<>> /\ <<>> \notin DOMAIN table) => TraversalInOrder

(* A traversal of two pages or more has ended, rows were upserted between  *)
(* its pages, and no identifier is the empty string.                       *)
TraversalUnderUpsertsEnded ==
  /\ trav.done
  /\ trav.dirty
  /\ Len(trav.sizes) > 1
  /\ <<>> \notin DOMAIN table

Reads == {"query", "list", "retrieve"}

(* The rows of tbl other than the row of the identifier k. *)
Others(tbl, k) == [id \in (DOMAIN tbl) \ {k} |-> tbl[id]]

(* C22: a step of query, list or retrieve leaves the rows and the schema   *)
(* as they were, whatever its arguments; the schema changes in a step of   *)
(* initialize only, which changes no row; the rows change in a step of     *)
(* upsert only, which leaves the schema and every row other than the row   *)
(* of the identifier of its record as they were.                           *)
C22_ReadsAreReadOnly ==
  [][/\ res'.op \in Reads => (table' = table /\ schema' = schema /\ hist' = hist)
     /\ schema' # schema => (res'.op = "initialize" /\ table' = table)
     /\ table' # table =>
          /\ res'.op = "upsert"
          /\ schema' = schema
          /\ Others(table', Key(res'.args.vec)) = Others(table, Key(res'.args.vec))]_vars

(* C22 witness: a read has returned rows of a table of two rows or more,   *)
(* which are the rows the upserts wrote.                                   *)
C22_Witness ==
  /\ res.op \in Reads
  /\ res.status = "ok"
  /\ Len(res.rows) > 0
  /\ Cardinality(DOMAIN table) > 1
  /\ \A id \in DOMAIN table : table[id] = StoredRow(hist[id])

====
